---- MODULE Spec2Model ----
(***************************************************************************)
(* Model of the ECMR placement schedulers (ecmr_baseline.py,               *)
(* ecmr_cloudsim_fully_integrated.py, ecmr_cloudsim_complete.py) and of    *)
(* the Pareto front manager (pareto_utils.py).                             *)
(*                                                                         *)
(* Units.  Floating point quantities of the source are kept as exact       *)
(* integers or rationals:                                                  *)
(*   - objective values are integers 0..MaxObj;                            *)
(*   - renewable_generation is held in W (source: MW), so that the         *)
(*     comparison available_res_kwh > energy_needed_kwh is compared in Wh; *)
(*   - latency is held in microseconds (source: ms = km * 0.1);            *)
(*   - pue and the weights are held in hundredths;                         *)
(*   - a weighted score is an exact fraction [num, den].                   *)
(***************************************************************************)
EXTENDS Integers, Sequences, FiniteSets, Bags, TLC

VARIABLES
    num_objectives,  \* ParetoFront.num_objectives
    solutions,       \* ParetoFront.solutions: sequence of [objectives, metadata]
    reference_point, \* ParetoFront.reference_point, in tenths
    submitted,       \* history: bag of every objective vector given to add_solution
    ret,             \* the last call that returns a value, and the value
    add_calls,       \* the add_solution calls in progress: thread -> position and locals
    stage2,          \* stage2_pareto_extension of train_cmorl.py: position and locals
    datacenters,     \* ECMRScheduler.datacenters: id -> the Datacenter's mutable fields
    metrics,         \* ECMRScheduler.metrics
    weights,         \* ECMRScheduler.w1, w2, w3 (hundredths)
    user_location,   \* ECMRScheduler.user_location
    vms,             \* the caller's VM dicts, in the order they were created
    ecmr_placements, \* the run loop's ecmr_placements, in the order of its keys
    impl             \* the file the ECMRScheduler in use is taken from

pareto_vars ==
    <<num_objectives, solutions, reference_point, submitted, add_calls,
      stage2>>

scheduler_vars ==
    <<datacenters, metrics, weights, user_location, vms, ecmr_placements, impl>>

vars == <<num_objectives, solutions, reference_point, submitted, ret,
          add_calls, stage2, datacenters, metrics, weights, user_location, vms, ecmr_placements,
          impl>>

(***************************************************************************)
(* Bounds of the model.                                                    *)
(***************************************************************************)
\* objective values are drawn from 0..MaxObj
MaxObj == 1
\* number of add_solution calls in one behaviour
MaxAdds == 4

\* the values of num_objectives the front is constructed with
ObjectiveCounts == {2, 3}

ObjectiveVectors(n) == [1..n -> 0..MaxObj]

NoCall == [op |-> "none"]

\* the value None of self.reference_point and of the reference_point argument
NoReference == <<>>

\* the threads that call add_solution on one front
Threads == {"t1", "t2"}

\* a thread that is not inside add_solution
Idle == [pc |-> "idle"]

\* no add_solution call is in progress
NoAddCalls == [t \in Threads |-> Idle]

\* stage2_pareto_extension has not been entered
NotStarted == [pc |-> "start"]

(***************************************************************************)
(* ParetoFront                                                             *)
(***************************************************************************)

\* a plausible slip: the strictness test is dropped
dominates_not_strict(obj1, obj2) ==
    \A k \in DOMAIN obj1 : obj1[k] <= obj2[k]

\* a plausible slip: "better in some objective" instead of "in all"
dominates_any(obj1, obj2) ==
    \E k \in DOMAIN obj1 : obj1[k] < obj2[k]

\* ParetoFront._dominates: np.all(obj1 <= obj2) and np.any(obj1 < obj2)
_dominates(obj1, obj2) ==
    LET better_in_all == \A k \in DOMAIN obj1 : obj1[k] <= obj2[k]
        strictly_better_in_one == \E k \in DOMAIN obj1 : obj1[k] < obj2[k]
    IN  better_in_all /\ strictly_better_in_one

\* list.pop(i) for a 1-based index
pop(s, i) == SubSeq(s, 1, i - 1) \o SubSeq(s, i + 1, Len(s))

\* the first loop of add_solution, from position i on: stops at the first
\* member that dominates the candidate, collects the members it dominates
RECURSIVE check_loop(_, _, _, _)
check_loop(sols, objectives, i, to_remove) ==
    IF i > Len(sols)
    THEN [dominated |-> FALSE, to_remove |-> to_remove]
    ELSE IF _dominates(sols[i].objectives, objectives)
    THEN [dominated |-> TRUE, to_remove |-> to_remove]
    ELSE IF _dominates(objectives, sols[i].objectives)
    THEN check_loop(sols, objectives, i + 1, Append(to_remove, i))
    ELSE check_loop(sols, objectives, i + 1, to_remove)

\* a plausible slip: only the first dominated member is popped
remove_loop_first_only(sols, to_remove, k) ==
    IF k = 0 THEN sols ELSE pop(sols, to_remove[1])

\* for i in reversed(to_remove): self.solutions.pop(i); k counts down
RECURSIVE remove_loop(_, _, _)
remove_loop(sols, to_remove, k) ==
    IF k = 0 THEN sols
    ELSE remove_loop(pop(sols, to_remove[k]), to_remove, k - 1)

\* a plausible slip: the candidate is appended whether or not it is dominated
add_solution_always_append(sols, objectives, metadata) ==
    LET r == check_loop(sols, objectives, 1, <<>>)
        kept == remove_loop(sols, r.to_remove, Len(r.to_remove))
    IN  Append(kept, [objectives |-> objectives, metadata |-> metadata])

\* a plausible slip: the dominated members are not removed
add_solution_no_removal(sols, objectives, metadata) ==
    LET r == check_loop(sols, objectives, 1, <<>>)
    IN  IF r.dominated THEN sols
        ELSE Append(sols, [objectives |-> objectives, metadata |-> metadata])

\* ParetoFront.add_solution: the value of self.solutions after the call
add_solution(sols, objectives, metadata) ==
    LET r == check_loop(sols, objectives, 1, <<>>)
        kept == remove_loop(sols, r.to_remove, Len(r.to_remove))
    IN  IF ~r.dominated
        THEN Append(kept, [objectives |-> objectives, metadata |-> metadata])
        ELSE kept

\* no scheduler is in use
NoScheduler ==
    /\ datacenters = <<>>
    /\ metrics = <<>>
    /\ weights = <<>>
    /\ user_location = "none"
    /\ vms = <<>>
    /\ ecmr_placements = <<>>
    /\ impl = "none"

\* ParetoFront.__init__
ParetoInit ==
    /\ num_objectives \in ObjectiveCounts
    /\ solutions = <<>>
    /\ reference_point = NoReference
    /\ add_calls = NoAddCalls
    /\ stage2 = NotStarted
    /\ submitted = EmptyBag
    /\ ret = NoCall
    /\ NoScheduler

\* one call front.add_solution(objectives, metadata); the caller's metadata
\* is the number of the call
AddSolution ==
    /\ BagCardinality(submitted) < MaxAdds
    /\ \E objectives \in ObjectiveVectors(num_objectives) :
         LET metadata == BagCardinality(submitted) + 1 IN
         /\ solutions' = add_solution(solutions, objectives, metadata)
         /\ submitted' = submitted (+) SetToBag({objectives})
    /\ UNCHANGED <<num_objectives, reference_point, ret, add_calls, stage2,
                   scheduler_vars>>

\* the arguments of three-way comparisons, drawn before the calls
DominatesInit ==
    /\ num_objectives \in ObjectiveCounts
    /\ solutions = <<>>
    /\ reference_point = NoReference
    /\ add_calls = NoAddCalls
    /\ stage2 = NotStarted
    /\ submitted = EmptyBag
    /\ NoScheduler
    /\ \E a \in ObjectiveVectors(num_objectives),
          b \in ObjectiveVectors(num_objectives),
          c \in ObjectiveVectors(num_objectives) :
         ret = [op |-> "args", a |-> a, b |-> b, c |-> c]

\* one evaluation of _dominates on each pair of the three vectors a, b, c
Dominates ==
    /\ ret.op = "args"
    /\ ret' = [op |-> "_dominates", a |-> ret.a, b |-> ret.b, c |-> ret.c,
               aa |-> _dominates(ret.a, ret.a),
               ab |-> _dominates(ret.a, ret.b),
               ba |-> _dominates(ret.b, ret.a),
               bc |-> _dominates(ret.b, ret.c),
               ac |-> _dominates(ret.a, ret.c)]
    /\ UNCHANGED <<pareto_vars, scheduler_vars>>

ParetoNext == AddSolution

SpecPareto == ParetoInit /\ [][ParetoNext]_vars

DominatesNext == Dominates

SpecDominates == DominatesInit /\ [][DominatesNext]_vars

(***************************************************************************)
(* Claims about the Pareto front                                           *)
(***************************************************************************)

\* Pareto dominance as the specification words it: no worse on every
\* coordinate and not the same vector
ParetoBetter(u, v) == (\A k \in DOMAIN u : u[k] <= v[k]) /\ u # v

\* how many members of the front hold the vector v
FrontCount(v) ==
    Cardinality({i \in 1..Len(solutions) : solutions[i].objectives = v})

\* the last add_solution call discarded its candidate: an admitted candidate
\* is the last member and carries the number of the call as its metadata
LastAddDiscarded ==
    /\ BagCardinality(submitted) > 0
    /\ \A i \in 1..Len(solutions) :
         solutions[i].metadata # BagCardinality(submitted)

\* C1: after any sequence of add_solution calls on an empty front, no member
\* of the front dominates another member.
C1_NoMemberDominatesAnother ==
    \A i \in 1..Len(solutions), j \in 1..Len(solutions) :
        ~ParetoBetter(solutions[i].objectives, solutions[j].objectives)

\* C1 witness: a front of two or more members from which a vector has been
\* evicted or kept out.
C1_Witness ==
    /\ Len(solutions) >= 2
    /\ BagCardinality(submitted) > Len(solutions)

\* C2: an add_solution call whose candidate is dominated by a member of the
\* front leaves the front exactly as it was (members, metadata, order).
C2_DominatedCandidateNoMutation ==
    [][submitted' # submitted =>
         LET objectives ==
                 CHOOSE v \in BagToSet(submitted') :
                     CopiesIn(v, submitted') > CopiesIn(v, submitted)
         IN  (\E i \in 1..Len(solutions) :
                  ParetoBetter(solutions[i].objectives, objectives))
             => solutions' = solutions]_vars

\* C2 witness: the last call discarded its candidate while the front held
\* two or more members.
C2_Witness ==
    /\ LastAddDiscarded
    /\ Len(solutions) >= 2

\* C3: the front holds exactly the submitted vectors that no other submitted
\* vector dominates, each as many times as it was submitted.
C3_FrontIsNonDominatedMultiset ==
    LET held == {solutions[i].objectives : i \in 1..Len(solutions)}
    IN  \A v \in BagToSet(submitted) \cup held :
            FrontCount(v) =
                IF \E w \in BagToSet(submitted) : ParetoBetter(w, v)
                THEN 0
                ELSE CopiesIn(v, submitted)

\* C3 witness: a vector held twice in a front from which another vector has
\* been evicted or kept out.
C3_Witness ==
    /\ \E v \in ObjectiveVectors(num_objectives) : FrontCount(v) >= 2
    /\ BagCardinality(submitted) > Len(solutions)

\* C4: _dominates(u, v) holds exactly when u is no worse than v on every
\* coordinate and strictly better on one, and it is irreflexive, asymmetric
\* and transitive.
C4_DominatesStrictPartialOrder ==
    ret.op = "_dominates" =>
        /\ ret.ab <=> ParetoBetter(ret.a, ret.b)
        /\ ~ret.aa
        /\ ~(ret.ab /\ ret.ba)
        /\ (ret.ab /\ ret.bc) => ret.ac

\* C4 witness: a chain a, b, c on which both premises of transitivity hold.
C4_Witness ==
    /\ ret.op = "_dominates"
    /\ ret.ab
    /\ ret.bc

\* the candidate of the add_solution call made by a step
Candidate(before, after) ==
    CHOOSE v \in BagToSet(after) : CopiesIn(v, after) > CopiesIn(v, before)

\* the members of a front that the vector v does not dominate, in their order
NotDominatedBy(sols, v) ==
    LET keep(s) == ~ParetoBetter(v, s.objectives)
    IN  SelectSeq(sols, keep)

\* C19: an add_solution call whose candidate no member dominates removes
\* exactly the members the candidate dominates, keeps the others with their
\* metadata in their order, and appends the candidate last; the size becomes
\* the old size minus the number of dominated members plus one.
C19_RemovesExactlyDominated ==
    [][submitted' # submitted =>
         LET objectives == Candidate(submitted, submitted')
             n_dominated ==
                 Cardinality({i \in 1..Len(solutions) :
                     ParetoBetter(objectives, solutions[i].objectives)})
         IN  (~\E i \in 1..Len(solutions) :
                  ParetoBetter(solutions[i].objectives, objectives))
             => /\ solutions' =
                     Append(NotDominatedBy(solutions, objectives),
                            [objectives |-> objectives,
                             metadata |-> BagCardinality(submitted')])
                /\ Len(solutions') = Len(solutions) - n_dominated + 1]_vars

\* C19 witness: the last call admitted its candidate, which evicted a member
\* (a submitted vector that only the candidate dominates) and kept another.
C19_Witness ==
    /\ Len(solutions) >= 2
    /\ LET last == solutions[Len(solutions)] IN
        /\ last.metadata = BagCardinality(submitted)
        /\ CopiesIn(last.objectives, submitted) = 1
        /\ \E v \in BagToSet(submitted) :
              /\ ParetoBetter(last.objectives, v)
              /\ \A w \in BagToSet(submitted) :
                    ParetoBetter(w, v) => w = last.objectives

(***************************************************************************)
(* Datacenter and ECMRScheduler: configuration                             *)
(***************************************************************************)
\* number of schedule_vm calls in one behaviour
MaxVMs == 3
\* cpu_per_server of every datacenter (the runs use 32)
CpuPerServer == 4
\* ram_per_server_mb of every datacenter (the runs use 256 * 1024)
RamPerServerMb == 8192

DatacenterIds == {"DC_A", "DC_B", "DC_C"}

\* the datacenters list given to ECMRScheduler.__init__; self.datacenters is
\* a dict and iterates in this order
DatacenterList == <<"DC_B", "DC_A", "DC_C">>

num_servers == [dc \in DatacenterIds |-> IF dc = "DC_C" THEN 2 ELSE 1]

\* Datacenter.pue, in hundredths
pue == [dc \in DatacenterIds |-> IF dc = "DC_C" THEN 110 ELSE 120]

power_idle_w == 200
power_max_w == 400

\* latency_threshold_ms of ECMRScheduler.__init__
latency_threshold_ms == 100

\* the weights a scheduler is constructed with, in hundredths
WeightChoices == {<<33, 33, 34>>, <<0, 100, 0>>, <<0, 0, 100>>}

UserLocations == {"paris", "stockholm"}

\* user_location of ECMRScheduler.__init__
DefaultUserLocation == "paris"

\* the haversine distance (km) from each user location to each datacenter
DistanceKm ==
    [loc \in UserLocations |->
        IF loc = "paris"
        THEN [dc \in DatacenterIds |->
                 CASE dc = "DC_A" -> 10 [] dc = "DC_B" -> 500 [] OTHER -> 2000]
        ELSE [dc \in DatacenterIds |->
                 CASE dc = "DC_A" -> 1500 [] dc = "DC_B" -> 1000 [] OTHER -> 10]]

\* the VM dicts a caller builds: num_cpus in 1..7, ram_mb in 2..15 GB
VmShapes ==
    { [num_cpus |-> 1, ram_mb |-> 8192],
      [num_cpus |-> 7, ram_mb |-> 4096] }

\* one datacenter's columns of an hourly row
HourEntry(gen_w, pct, carbon, type) ==
    [renewable_generation_w |-> gen_w, renewable_pct |-> pct,
     carbon_intensity_gco2_kwh |-> carbon, datacenter_type |-> type]

\* the hourly rows of the synchronized dataset
HourRows ==
    { [dc \in DatacenterIds |->
          CASE dc = "DC_A" -> HourEntry(0, 10, 400, "DB")
            [] dc = "DC_B" -> HourEntry(40, 80, 50, "DG")
            [] OTHER       -> HourEntry(500000, 60, 100, "DG")],
      [dc \in DatacenterIds |->
          CASE dc = "DC_A" -> HourEntry(500000, 50, 300, "DB")
            [] dc = "DC_B" -> HourEntry(500000, 80, 300, "DG")
            [] OTHER       -> HourEntry(0, 10, 400, "DB")],
      [dc \in DatacenterIds |->
          CASE dc = "DC_A" -> HourEntry(0, 10, 400, "DB")
            [] dc = "DC_B" -> HourEntry(0, 20, 400, "DB")
            [] OTHER       -> HourEntry(500000, 90, 50, "DG")] }

(***************************************************************************)
(* Datacenter                                                              *)
(***************************************************************************)
total_cpus(dc) == num_servers[dc] * CpuPerServer

total_ram_mb(dc) == num_servers[dc] * RamPerServerMb

available_cpus(d, dc) == total_cpus(dc) - d[dc].used_cpus

available_ram_mb(d, dc) == total_ram_mb(dc) - d[dc].used_ram_mb

\* a plausible slip: the RAM headroom is not checked
can_host_vm_cpu_only(d, dc, vm) ==
    available_cpus(d, dc) >= vm.num_cpus

\* a plausible slip: the capacity check always passes
can_host_vm_always(d, dc, vm) == TRUE

\* Datacenter.can_host_vm
can_host_vm(d, dc, vm) ==
    /\ available_cpus(d, dc) >= vm.num_cpus
    /\ available_ram_mb(d, dc) >= vm.ram_mb

\* Datacenter.allocate_vm of ecmr_baseline.py and ecmr_cloudsim_complete.py
allocate_vm(d, dc, vm) ==
    [d EXCEPT ![dc].used_cpus = @ + vm.num_cpus,
              ![dc].used_ram_mb = @ + vm.ram_mb,
              ![dc].active_vms = Append(@, vm.vm_id)]

\* list.remove(x): drops the first occurrence of x
RECURSIVE list_remove(_, _)
list_remove(s, x) ==
    IF s = <<>> THEN <<>>
    ELSE IF Head(s) = x THEN Tail(s)
    ELSE <<Head(s)>> \o list_remove(Tail(s), x)

\* a plausible slip: the RAM of the VM is not given back
release_vm_keeps_ram(d, dc, vm) ==
    [d EXCEPT ![dc].used_cpus = @ - vm.num_cpus,
              ![dc].active_vms = list_remove(@, vm.vm_id)]

\* Datacenter.release_vm
release_vm(d, dc, vm) ==
    [d EXCEPT ![dc].used_cpus = @ - vm.num_cpus,
              ![dc].used_ram_mb = @ - vm.ram_mb,
              ![dc].active_vms =
                  IF \E i \in 1..Len(@) : @[i] = vm.vm_id
                  THEN list_remove(@, vm.vm_id) ELSE @]

(***************************************************************************)
(* ECMRScheduler: helpers shared by the three files                        *)
(***************************************************************************)
\* ECMRScheduler.calculate_distance
calculate_distance(loc, dc) == DistanceKm[loc][dc]

\* latency_ms = distance_km * 0.1, in microseconds
latency_us(loc, dc) == calculate_distance(loc, dc) * 100

\* a plausible slip: the latency threshold is not enforced
latency_exceeded_never(loc, dc) == FALSE

\* latency_ms > self.latency_threshold_ms
latency_exceeded(loc, dc) == latency_us(loc, dc) > latency_threshold_ms * 1000

\* ECMRScheduler.estimate_vm_energy_kwh for one hour, in Wh
estimate_vm_energy_wh(vm) == vm.num_cpus * 50

\* a plausible slip: the renewable generation is not compared with the
\* energy the VM needs
check_res_availability_always(d, dc, vm) == TRUE

\* ECMRScheduler.check_res_availability
check_res_availability(d, dc, vm) ==
    IF d[dc].datacenter_type = "DB" THEN TRUE
    ELSE d[dc].renewable_generation_w > estimate_vm_energy_wh(vm)

\* ECMRScheduler.calculate_weighted_score of ecmr_baseline.py and
\* ecmr_cloudsim_fully_integrated.py; the score is num / (den * 10^7)
calculate_weighted_score(d, w, loc, dc, vm) ==
    [num |-> w[1] * (power_max_w - power_idle_w) * vm.num_cpus * pue[dc]
             + w[2] * d[dc].carbon_intensity_gco2_kwh * 200 * total_cpus(dc)
             + w[3] * latency_us(loc, dc) * total_cpus(dc),
     den |-> total_cpus(dc)]

\* x < y for two scores
score_less(x, y) == x.num * y.den < y.num * x.den

\* candidates.sort(key=score): a stable sort, by insertion
RECURSIVE sort_by_score(_)
sort_by_score(cands) ==
    IF cands = <<>> THEN <<>>
    ELSE LET front == sort_by_score(SubSeq(cands, 1, Len(cands) - 1))
             last == cands[Len(cands)]
             n == Cardinality({i \in 1..Len(front) :
                                  ~score_less(last.score, front[i].score)})
         IN  SubSeq(front, 1, n) \o <<last>> \o SubSeq(front, n + 1, Len(front))

\* the datacenters of self.datacenters.values() that carry a type
of_type(d, type) ==
    SelectSeq(DatacenterList, LAMBDA dc : d[dc].datacenter_type = type)

\* what the two passes accumulate
NoCandidates ==
    [candidates |-> <<>>, latency_rejections |-> 0, res_rejections |-> 0]

\* the loop over dg_datacenters of schedule_vm
RECURSIVE green_pass(_, _, _, _, _, _)
green_pass(d, w, loc, vm, dg, acc) ==
    IF dg = <<>> THEN acc
    ELSE LET dc == Head(dg) IN
         IF ~can_host_vm(d, dc, vm)
         THEN green_pass(d, w, loc, vm, Tail(dg), acc)
         ELSE IF latency_exceeded(loc, dc)
         THEN green_pass(d, w, loc, vm, Tail(dg),
                         [acc EXCEPT !.latency_rejections = @ + 1])
         ELSE IF ~check_res_availability(d, dc, vm)
         THEN green_pass(d, w, loc, vm, Tail(dg),
                         [acc EXCEPT !.res_rejections = @ + 1])
         ELSE green_pass(d, w, loc, vm, Tail(dg),
                         [acc EXCEPT !.candidates = Append(@,
                             [datacenter |-> dc,
                              score |-> calculate_weighted_score(d, w, loc, dc, vm),
                              distance_km |-> calculate_distance(loc, dc),
                              latency_us |-> latency_us(loc, dc),
                              type |-> "DG"])])

\* the loop over db_datacenters of schedule_vm
RECURSIVE brown_pass(_, _, _, _, _, _)
brown_pass(d, w, loc, vm, db, acc) ==
    IF db = <<>> THEN acc
    ELSE LET dc == Head(db) IN
         IF ~can_host_vm(d, dc, vm)
         THEN brown_pass(d, w, loc, vm, Tail(db), acc)
         ELSE IF latency_exceeded(loc, dc)
         THEN brown_pass(d, w, loc, vm, Tail(db),
                         [acc EXCEPT !.latency_rejections = @ + 1])
         ELSE brown_pass(d, w, loc, vm, Tail(db),
                         [acc EXCEPT !.candidates = Append(@,
                             [datacenter |-> dc,
                              score |-> calculate_weighted_score(d, w, loc, dc, vm),
                              distance_km |-> calculate_distance(loc, dc),
                              latency_us |-> latency_us(loc, dc),
                              type |-> "DB"])])

\* a plausible slip: the brown datacenters are evaluated even when a green
\* candidate was found, and compete with it on score
two_pass_always_brown(d, w, loc, vm) ==
    brown_pass(d, w, loc, vm, of_type(d, "DB"),
               green_pass(d, w, loc, vm, of_type(d, "DG"), NoCandidates))

\* the candidate generation of schedule_vm: green first, brown only when no
\* green candidate was found
two_pass(d, w, loc, vm) ==
    LET green == green_pass(d, w, loc, vm, of_type(d, "DG"), NoCandidates)
    IN  IF green.candidates = <<>>
        THEN brown_pass(d, w, loc, vm, of_type(d, "DB"), green)
        ELSE green

\* Datacenter.__init__ defaults with nothing allocated
NewDatacenter ==
    [used_cpus |-> 0, used_ram_mb |-> 0, active_vms |-> <<>>,
     renewable_generation_w |-> 0, renewable_pct |-> 0,
     carbon_intensity_gco2_kwh |-> 0, datacenter_type |-> "DB"]

\* ECMRScheduler.__init__ of the file named by impl
SchedulerInit ==
    /\ num_objectives = 3
    /\ solutions = <<>>
    /\ reference_point = NoReference
    /\ add_calls = NoAddCalls
    /\ stage2 = NotStarted
    /\ submitted = EmptyBag
    /\ ret = NoCall
    /\ datacenters = [dc \in DatacenterIds |-> NewDatacenter]
    /\ metrics = [total_vms |-> 0, placed_vms |-> 0, failed_vms |-> 0,
                  total_response_time_us |-> 0,
                  latency_rejections |-> 0, res_rejections |-> 0,
                  placement_decisions |-> <<>>]
    /\ weights \in WeightChoices
    /\ user_location = DefaultUserLocation
    /\ vms = <<>>
    /\ ecmr_placements = <<>>

\* a scheduler of ecmr_baseline.py
BaselineInit == SchedulerInit /\ impl = "baseline"

\* a scheduler of ecmr_cloudsim_fully_integrated.py
IntegratedInit == SchedulerInit /\ impl = "integrated"

\* a scheduler of either file with the two-pass schedule_vm
TwoPassInit == SchedulerInit /\ impl \in {"baseline", "integrated"}

(***************************************************************************)
(* ecmr_baseline.py                                                        *)
(***************************************************************************)
\* ECMRScheduler.schedule_vm of ecmr_baseline.py: the datacenters, the
\* metrics and the returned pair after the call
schedule_vm_baseline(d, m, w, loc, vm) ==
    LET r == two_pass(d, w, loc, vm)
        m1 == [m EXCEPT !.latency_rejections = @ + r.latency_rejections,
                        !.res_rejections = @ + r.res_rejections]
    IN  IF r.candidates # <<>>
        THEN LET best == sort_by_score(r.candidates)[1]
                 dc == best.datacenter
             IN  [datacenters |-> allocate_vm(d, dc, vm),
                  metrics |->
                      [m1 EXCEPT
                          !.placed_vms = @ + 1,
                          !.total_response_time_us = @ + best.latency_us,
                          !.placement_decisions = Append(@,
                              [vm_id |-> vm.vm_id, datacenter |-> dc,
                               datacenter_type |-> best.type,
                               distance_km |-> best.distance_km,
                               latency_us |-> best.latency_us,
                               weighted_score |-> best.score])],
                  ret |-> [op |-> "schedule_vm", vm |-> vm,
                           dc_id |-> dc, success |-> TRUE]]
        ELSE [datacenters |-> d,
              metrics |->
                  [m1 EXCEPT
                      !.failed_vms = @ + 1,
                      !.placement_decisions = Append(@,
                          [vm_id |-> vm.vm_id, datacenter |-> "None",
                           datacenter_type |-> "None", failed |-> TRUE])],
              ret |-> [op |-> "schedule_vm", vm |-> vm,
                       dc_id |-> "None", success |-> FALSE]]

\* ECMRScheduler.update_datacenter_state of ecmr_baseline.py
update_datacenter_state(d, hour_data) ==
    [dc \in DatacenterIds |->
        [d[dc] EXCEPT
            !.renewable_generation_w = hour_data[dc].renewable_generation_w,
            !.carbon_intensity_gco2_kwh = hour_data[dc].carbon_intensity_gco2_kwh,
            !.renewable_pct = hour_data[dc].renewable_pct,
            !.datacenter_type = hour_data[dc].datacenter_type]]

\* the vm dict of the next request: a fresh vm_id and one of the shapes
NewVm(shape) ==
    [vm_id |-> Len(vms) + 1, num_cpus |-> shape.num_cpus, ram_mb |-> shape.ram_mb]

\* one call scheduler.schedule_vm(vm, hour)
ScheduleVmBaseline ==
    /\ impl = "baseline"
    /\ Len(vms) < MaxVMs
    /\ \E shape \in VmShapes :
         LET vm == NewVm(shape)
             r == schedule_vm_baseline(datacenters, metrics, weights,
                                       user_location, vm)
         IN  /\ datacenters' = r.datacenters
             /\ metrics' = r.metrics
             /\ ret' = r.ret
             /\ vms' = Append(vms, vm)
    /\ UNCHANGED <<pareto_vars, ecmr_placements, weights, user_location, impl>>

\* one call scheduler.update_datacenter_state(row)
UpdateDatacenterStateBaseline ==
    /\ impl = "baseline"
    /\ \E hour_data \in HourRows :
         datacenters' = update_datacenter_state(datacenters, hour_data)
    /\ UNCHANGED <<pareto_vars, ecmr_placements, ret, metrics, weights,
                   user_location, vms, impl>>

\* one call dc.release_vm(vm) for a vm that is allocated on dc
ReleaseVm ==
    /\ impl = "baseline"
    /\ \E dc \in DatacenterIds, i \in 1..Len(vms) :
         /\ \E k \in 1..Len(datacenters[dc].active_vms) :
              datacenters[dc].active_vms[k] = vms[i].vm_id
         /\ datacenters' = release_vm(datacenters, dc, vms[i])
    /\ UNCHANGED <<pareto_vars, ecmr_placements, ret, metrics, weights,
                   user_location, vms, impl>>

BaselineNext ==
    \/ ScheduleVmBaseline
    \/ UpdateDatacenterStateBaseline
    \/ ReleaseVm

SpecBaseline == BaselineInit /\ [][BaselineNext]_vars

(***************************************************************************)
(* ecmr_cloudsim_fully_integrated.py                                       *)
(***************************************************************************)
\* a plausible slip: the RAM of the VM is not added
allocate_vm_cpu_only(d, dc, vm) ==
    [d EXCEPT ![dc].used_cpus = @ + vm.num_cpus]

\* Datacenter.allocate_vm of ecmr_cloudsim_fully_integrated.py
allocate_vm_integrated(d, dc, vm) ==
    [d EXCEPT ![dc].used_cpus = @ + vm.num_cpus,
              ![dc].used_ram_mb = @ + vm.ram_mb]

\* a plausible slip: a pool that is green stays green only from 60 percent
classify_datacenters_hysteresis(d) ==
    [dc \in DatacenterIds |->
        [d[dc] EXCEPT !.datacenter_type =
            IF d[dc].renewable_pct >= (IF @ = "DG" THEN 60 ELSE 50)
            THEN "DG" ELSE "DB"]]

\* ECMRScheduler.classify_datacenters of ecmr_cloudsim_fully_integrated.py:
\* the datacenters after the call, each with its datacenter_type set
classify_datacenters_integrated(d) ==
    [dc \in DatacenterIds |->
        [d[dc] EXCEPT !.datacenter_type =
            IF d[dc].renewable_pct >= 50 THEN "DG" ELSE "DB"]]

\* ECMRScheduler.schedule_vm of ecmr_cloudsim_fully_integrated.py: the
\* datacenters, the metrics and the returned triple after the call
schedule_vm_integrated(d, m, w, loc, vm) ==
    LET d1 == classify_datacenters_integrated(d)
        r == two_pass(d1, w, loc, vm)
        m1 == [m EXCEPT !.total_vms = @ + 1,
                        !.latency_rejections = @ + r.latency_rejections,
                        !.res_rejections = @ + r.res_rejections]
    IN  IF r.candidates # <<>>
        THEN LET best == sort_by_score(r.candidates)[1]
                 dc == best.datacenter
                 decision == [vm_id |-> vm.vm_id,
                              ecmr_selected_datacenter |-> dc,
                              datacenter_type |-> best.type,
                              distance_km |-> best.distance_km,
                              latency_us |-> best.latency_us,
                              weighted_score |-> best.score,
                              success |-> TRUE]
             IN  [datacenters |-> allocate_vm_integrated(d1, dc, vm),
                  metrics |->
                      [m1 EXCEPT
                          !.placed_vms = @ + 1,
                          !.placement_decisions = Append(@, decision)],
                  ret |-> [op |-> "schedule_vm", vm |-> vm, dc_id |-> dc,
                           success |-> TRUE, decision |-> decision]]
        ELSE LET decision == [vm_id |-> vm.vm_id,
                              ecmr_selected_datacenter |-> "None",
                              datacenter_type |-> "None",
                              success |-> FALSE]
             IN  [datacenters |-> d1,
                  metrics |->
                      [m1 EXCEPT
                          !.failed_vms = @ + 1,
                          !.placement_decisions = Append(@, decision)],
                  ret |-> [op |-> "schedule_vm", vm |-> vm, dc_id |-> "None",
                           success |-> FALSE, decision |-> decision]]

\* the state update at the head of the loop of run_integrated_simulation
update_state_integrated(d, row) ==
    [dc \in DatacenterIds |->
        [d[dc] EXCEPT
            !.renewable_generation_w = row[dc].renewable_generation_w,
            !.renewable_pct = row[dc].renewable_pct,
            !.carbon_intensity_gco2_kwh = row[dc].carbon_intensity_gco2_kwh]]

\* one call self.scheduler.schedule_vm(vm, timestamp)
ScheduleVmIntegrated ==
    /\ impl = "integrated"
    /\ Len(vms) < MaxVMs
    /\ \E shape \in VmShapes :
         LET vm == NewVm(shape)
             r == schedule_vm_integrated(datacenters, metrics, weights,
                                         user_location, vm)
         IN  /\ datacenters' = r.datacenters
             /\ metrics' = r.metrics
             /\ ret' = r.ret
             /\ vms' = Append(vms, vm)
    /\ UNCHANGED <<pareto_vars, ecmr_placements, weights, user_location, impl>>

\* the datacenter states are overwritten from one row of the dataset
UpdateStateIntegrated ==
    /\ impl = "integrated"
    /\ \E row \in HourRows :
         datacenters' = update_state_integrated(datacenters, row)
    /\ UNCHANGED <<pareto_vars, ecmr_placements, ret, metrics, weights,
                   user_location, vms, impl>>

IntegratedNext ==
    \/ ScheduleVmIntegrated
    \/ UpdateStateIntegrated

SpecIntegrated == IntegratedInit /\ [][IntegratedNext]_vars

TwoPassNext ==
    \/ ScheduleVmBaseline
    \/ UpdateDatacenterStateBaseline
    \/ ReleaseVm
    \/ ScheduleVmIntegrated
    \/ UpdateStateIntegrated

SpecTwoPass == TwoPassInit /\ [][TwoPassNext]_vars

(***************************************************************************)
(* Claims about the two-pass schedulers                                    *)
(***************************************************************************)

\* elements of a sequence
Range(s) == {s[i] : i \in 1..Len(s)}

\* the step is one schedule_vm call: the caller's request list grew
ScheduleStep == vms' # vms

\* the conditions of the specification, on the datacenters d a call starts from
HasCapacity(d, dc, vm) ==
    /\ total_cpus(dc) - d[dc].used_cpus >= vm.num_cpus
    /\ total_ram_mb(dc) - d[dc].used_ram_mb >= vm.ram_mb

LatencyOver(dc) ==
    DistanceKm[user_location][dc] > 10 * latency_threshold_ms

ResEnough(d, dc, vm) == d[dc].renewable_generation_w > 50 * vm.num_cpus

\* green as the scheduler in use classifies: by the pipeline's type in
\* ecmr_baseline.py, by renewable_pct in ecmr_cloudsim_fully_integrated.py
IsGreen(d, dc) ==
    IF impl = "integrated" THEN d[dc].renewable_pct >= 50
    ELSE d[dc].datacenter_type = "DG"

GreenPasses(d, dc, vm) ==
    /\ IsGreen(d, dc)
    /\ HasCapacity(d, dc, vm)
    /\ ~LatencyOver(dc)
    /\ ResEnough(d, dc, vm)

BrownPasses(d, dc, vm) ==
    /\ ~IsGreen(d, dc)
    /\ HasCapacity(d, dc, vm)
    /\ ~LatencyOver(dc)

SameAllocation(dc) ==
    /\ datacenters'[dc].used_cpus = datacenters[dc].used_cpus
    /\ datacenters'[dc].used_ram_mb = datacenters[dc].used_ram_mb

\* C5: from pools with nothing allocated, after any sequence of schedule_vm,
\* update_datacenter_state and release_vm calls (release only of a workload
\* allocated on the pool), every pool has 0 <= used_cpus <= total_cpus and
\* 0 <= used_ram_mb <= total_ram_mb.
C5_CapacityInvariant ==
    \A dc \in DatacenterIds :
        /\ 0 <= datacenters[dc].used_cpus
        /\ datacenters[dc].used_cpus <= total_cpus(dc)
        /\ 0 <= datacenters[dc].used_ram_mb
        /\ datacenters[dc].used_ram_mb <= total_ram_mb(dc)

\* C5 witness: a pool whose RAM is used up and still has a CPU free, after a
\* request failed and a placed workload was released.
C5_Witness ==
    /\ impl = "baseline"
    /\ \E dc \in DatacenterIds :
         /\ datacenters[dc].used_ram_mb = total_ram_mb(dc)
         /\ datacenters[dc].used_cpus < total_cpus(dc)
    /\ metrics.failed_vms >= 1
    /\ \E dc \in DatacenterIds, i \in 1..Len(metrics.placement_decisions) :
         /\ metrics.placement_decisions[i].datacenter = dc
         /\ \A k \in 1..Len(datacenters[dc].active_vms) :
              datacenters[dc].active_vms[k] # metrics.placement_decisions[i].vm_id

\* C6: a schedule_vm call either returns success and raises used_cpus and
\* used_ram_mb of the returned pool alone by the request's num_cpus and
\* ram_mb, or returns (None, False) and changes no pool's allocation; no
\* other step of the scheduler places a request.
C6_AllOrNothingPlacement ==
    [][IF ScheduleStep
       THEN LET vm == ret'.vm IN
            \/ /\ ret'.success
               /\ ret'.dc_id \in DatacenterIds
               /\ datacenters'[ret'.dc_id].used_cpus =
                      datacenters[ret'.dc_id].used_cpus + vm.num_cpus
               /\ datacenters'[ret'.dc_id].used_ram_mb =
                      datacenters[ret'.dc_id].used_ram_mb + vm.ram_mb
               /\ \A dc \in DatacenterIds \ {ret'.dc_id} : SameAllocation(dc)
            \/ /\ ~ret'.success
               /\ ret'.dc_id = "None"
               /\ \A dc \in DatacenterIds : SameAllocation(dc)
       ELSE \A dc \in DatacenterIds : SameAllocation(dc)]_vars

\* C6 witness: one request has been placed and a later one has failed.
C6_Witness ==
    /\ impl = "integrated"
    /\ metrics.placed_vms >= 1
    /\ ret.op = "schedule_vm"
    /\ ~ret.success

\* C7: whenever a green pool passes the capacity, latency and renewable
\* checks, the two-pass schedule_vm selects a green pool, whatever the
\* weights and the brown pools' scores.
C7_GreenBeforeBrown ==
    [][ScheduleStep =>
         ( (\E dc \in DatacenterIds : GreenPasses(datacenters, dc, ret'.vm))
           => /\ ret'.success
              /\ IsGreen(datacenters, ret'.dc_id) )]_vars

\* C7 witness: a green pool was selected while a brown pool that passes the
\* capacity and latency checks holds a strictly lower score.
C7_Witness ==
    /\ ret.op = "schedule_vm"
    /\ ret.success
    /\ IsGreen(datacenters, ret.dc_id)
    /\ \E b \in DatacenterIds :
         /\ BrownPasses(datacenters, b, ret.vm)
         /\ score_less(calculate_weighted_score(datacenters, weights,
                                                user_location, b, ret.vm),
                       metrics.placement_decisions[
                           Len(metrics.placement_decisions)].weighted_score)

\* C8: schedule_vm fails exactly when every green pool fails capacity,
\* latency or renewable availability and every brown pool fails capacity or
\* latency; res_rejections grows by the number of green pools rejected for
\* renewable availability, never on account of a brown pool.
C8_FailureIffNoCandidate ==
    [][ScheduleStep =>
         LET vm == ret'.vm
             d == datacenters
             res_rejected == {dc \in DatacenterIds :
                                 /\ IsGreen(d, dc)
                                 /\ HasCapacity(d, dc, vm)
                                 /\ ~LatencyOver(dc)
                                 /\ ~ResEnough(d, dc, vm)}
         IN  /\ ~ret'.success <=>
                    \A dc \in DatacenterIds :
                        /\ ~GreenPasses(d, dc, vm)
                        /\ ~BrownPasses(d, dc, vm)
             /\ metrics'.res_rejections =
                    metrics.res_rejections + Cardinality(res_rejected)]_vars

\* C8 witness: a call failed after a green pool was rejected for renewable
\* availability, and a request was placed on a brown pool earlier.
C8_Witness ==
    /\ impl = "integrated"
    /\ ret.op = "schedule_vm"
    /\ ~ret.success
    /\ metrics.res_rejections >= 1
    /\ \E i \in 1..Len(metrics.placement_decisions) :
         metrics.placement_decisions[i].datacenter_type = "DB"

\* C9: a pool over the latency threshold is never selected;
\* latency_rejections grows by one for each evaluated pool that has capacity
\* and is over the threshold; when the only green pool is rejected for
\* latency and a brown pool is within capacity and threshold, the request is
\* placed on such a brown pool.
C9_LatencyExclusion ==
    [][ScheduleStep =>
         LET vm == ret'.vm
             d == datacenters
             greens == {dc \in DatacenterIds : IsGreen(d, dc)}
             browns == DatacenterIds \ greens
             evaluated ==
                 IF \E dc \in greens : GreenPasses(d, dc, vm)
                 THEN greens ELSE DatacenterIds
             rejected == {dc \in evaluated :
                             HasCapacity(d, dc, vm) /\ LatencyOver(dc)}
         IN  /\ ret'.success => ~LatencyOver(ret'.dc_id)
             /\ metrics'.latency_rejections =
                    metrics.latency_rejections + Cardinality(rejected)
             /\ ( /\ Cardinality(greens) = 1
                  /\ greens \subseteq rejected
                  /\ \E b \in browns : BrownPasses(d, b, vm) )
                => /\ ret'.success
                   /\ BrownPasses(d, ret'.dc_id, vm) ]_vars

\* C9 witness: the only green pool is over the threshold, its rejection was
\* counted, and the request went to a brown pool.
C9_Witness ==
    /\ impl = "integrated"
    /\ ret.op = "schedule_vm"
    /\ ret.success
    /\ ret.decision.datacenter_type = "DB"
    /\ metrics.latency_rejections >= 1
    /\ \E g \in DatacenterIds :
         /\ {dc \in DatacenterIds : IsGreen(datacenters, dc)} = {g}
         /\ LatencyOver(g)
         /\ datacenters[g].used_cpus = 0

(***************************************************************************)
(* ecmr_cloudsim_complete.py                                               *)
(***************************************************************************)
\* a scheduler of ecmr_cloudsim_complete.py
CompleteInit == SchedulerInit /\ impl = "complete"

\* n / d rounded to the nearest integer, halves to the even one, as Python's
\* round does
round_half_even(n, d) ==
    LET q == n \div d
        r == n % d
    IN  IF 2 * r > d THEN q + 1
        ELSE IF 2 * r < d THEN q
        ELSE IF q % 2 = 0 THEN q ELSE q + 1

\* round(self.calculate_weighted_score(dc, vm), 4) of
\* ecmr_cloudsim_complete.py, in ten-thousandths: the score times 10^4 is
\* the fraction below
calculate_weighted_score_complete(d, w, loc, dc, vm) ==
    round_half_even(
        w[1] * (power_max_w - power_idle_w) * vm.num_cpus * pue[dc]
        + w[2] * (d[dc].carbon_intensity_gco2_kwh * 100
                  + (100 - d[dc].renewable_pct) * 500) * total_cpus(dc)
        + w[3] * calculate_distance(loc, dc) * 50 * total_cpus(dc),
        total_cpus(dc) * 1000)

\* ECMRScheduler.sort_dg_by_distance: sorted() is stable
RECURSIVE sort_dg_by_distance(_, _)
sort_dg_by_distance(loc, dg) ==
    IF dg = <<>> THEN <<>>
    ELSE LET front == sort_dg_by_distance(loc, SubSeq(dg, 1, Len(dg) - 1))
             last == dg[Len(dg)]
             n == Cardinality({i \in 1..Len(front) :
                     calculate_distance(loc, front[i])
                         <= calculate_distance(loc, last)})
         IN  SubSeq(front, 1, n) \o <<last>> \o SubSeq(front, n + 1, Len(front))

\* the weighted_score of an evaluation that is not a candidate (None)
NoScore == -1

\* the evaluation record schedule_vm builds for one datacenter
evaluate_datacenter(d, w, loc, dc, vm) ==
    LET can_host == can_host_vm(d, dc, vm)
        latency_ok == ~latency_exceeded(loc, dc)
        res_ok == IF d[dc].datacenter_type = "DG"
                  THEN check_res_availability(d, dc, vm) ELSE TRUE
    IN  [datacenter_id |-> dc,
         datacenter_type |-> d[dc].datacenter_type,
         distance_km |-> calculate_distance(loc, dc),
         latency_us |-> latency_us(loc, dc),
         carbon_intensity |-> d[dc].carbon_intensity_gco2_kwh,
         renewable_pct |-> d[dc].renewable_pct,
         renewable_w |-> d[dc].renewable_generation_w,
         can_host |-> can_host,
         latency_ok |-> latency_ok,
         res_ok |-> res_ok,
         weighted_score |->
             IF can_host /\ latency_ok /\ res_ok
             THEN calculate_weighted_score_complete(d, w, loc, dc, vm)
             ELSE NoScore,
         selected |-> FALSE,
         rejection_reason |->
             (IF ~can_host THEN <<"insufficient_capacity">> ELSE <<>>)
             \o (IF ~latency_ok THEN <<"latency">> ELSE <<>>)
             \o (IF ~res_ok THEN <<"insufficient_RES">> ELSE <<>>)]

\* the loop of schedule_vm over list(dg_datacenters) + list(db_datacenters)
RECURSIVE evaluate_all(_, _, _, _, _, _)
evaluate_all(d, w, loc, vm, dcs, acc) ==
    IF dcs = <<>> THEN acc
    ELSE LET e == evaluate_datacenter(d, w, loc, Head(dcs), vm) IN
         evaluate_all(d, w, loc, vm, Tail(dcs),
             [all_dc_evaluations |-> Append(acc.all_dc_evaluations, e),
              latency_rejections |->
                  acc.latency_rejections + (IF e.latency_ok THEN 0 ELSE 1),
              res_rejections |->
                  acc.res_rejections + (IF e.res_ok THEN 0 ELSE 1)])

\* candidates.sort(key=weighted_score): a stable sort, by insertion
RECURSIVE sort_by_weighted_score(_)
sort_by_weighted_score(cands) ==
    IF cands = <<>> THEN <<>>
    ELSE LET front == sort_by_weighted_score(SubSeq(cands, 1, Len(cands) - 1))
             last == cands[Len(cands)]
             n == Cardinality({i \in 1..Len(front) :
                     front[i].weighted_score <= last.weighted_score})
         IN  SubSeq(front, 1, n) \o <<last>> \o SubSeq(front, n + 1, Len(front))

\* the first evaluation of a datacenter id is marked selected
mark_selected(evals, dc) ==
    LET k == CHOOSE i \in 1..Len(evals) :
                 /\ evals[i].datacenter_id = dc
                 /\ \A j \in 1..(i - 1) : evals[j].datacenter_id # dc
    IN  [evals EXCEPT ![k].selected = TRUE]

\* ECMRScheduler.schedule_vm of ecmr_cloudsim_complete.py: the datacenters,
\* the metrics and the returned triple after the call
schedule_vm_complete(d, m, w, loc, vm) ==
    LET dg == sort_dg_by_distance(loc, of_type(d, "DG"))
        db == SelectSeq(DatacenterList,
                        LAMBDA dc : d[dc].datacenter_type # "DG")
        r == evaluate_all(d, w, loc, vm, dg \o db,
                 [all_dc_evaluations |-> <<>>, latency_rejections |-> 0,
                  res_rejections |-> 0])
        m1 == [m EXCEPT !.total_vms = @ + 1,
                        !.latency_rejections = @ + r.latency_rejections,
                        !.res_rejections = @ + r.res_rejections]
        candidates == SelectSeq(r.all_dc_evaluations,
                                LAMBDA e : e.weighted_score # NoScore)
    IN  IF candidates # <<>>
        THEN LET best == sort_by_weighted_score(candidates)[1]
                 dc == best.datacenter_id
                 decision ==
                     [vm_id |-> vm.vm_id,
                      selected_datacenter |-> dc,
                      datacenter_type |-> best.datacenter_type,
                      all_dc_evaluations |->
                          mark_selected(r.all_dc_evaluations, dc),
                      success |-> TRUE]
             IN  [datacenters |-> allocate_vm(d, dc, vm),
                  metrics |->
                      [m1 EXCEPT
                          !.placed_vms = @ + 1,
                          !.total_response_time_us = @ + best.latency_us,
                          !.placement_decisions = Append(@, decision)],
                  ret |-> [op |-> "schedule_vm", vm |-> vm, dc_id |-> dc,
                           success |-> TRUE, decision |-> decision]]
        ELSE LET decision ==
                     [vm_id |-> vm.vm_id,
                      selected_datacenter |-> "None",
                      all_dc_evaluations |-> r.all_dc_evaluations,
                      success |-> FALSE]
             IN  [datacenters |-> d,
                  metrics |->
                      [m1 EXCEPT
                          !.failed_vms = @ + 1,
                          !.placement_decisions = Append(@, decision)],
                  ret |-> [op |-> "schedule_vm", vm |-> vm, dc_id |-> "None",
                           success |-> FALSE, decision |-> decision]]

\* one call self.scheduler.schedule_vm(vm, timestamp)
ScheduleVmComplete ==
    /\ impl = "complete"
    /\ Len(vms) < MaxVMs
    /\ \E shape \in VmShapes :
         LET vm == NewVm(shape)
             r == schedule_vm_complete(datacenters, metrics, weights,
                                       user_location, vm)
         IN  /\ datacenters' = r.datacenters
             /\ metrics' = r.metrics
             /\ ret' = r.ret
             /\ vms' = Append(vms, vm)
    /\ UNCHANGED <<pareto_vars, ecmr_placements, weights, user_location, impl>>

\* one call self.scheduler.update_datacenter_state(hour_data)
UpdateDatacenterStateComplete ==
    /\ impl = "complete"
    /\ \E hour_data \in HourRows :
         datacenters' = update_datacenter_state(datacenters, hour_data)
    /\ UNCHANGED <<pareto_vars, ecmr_placements, ret, metrics, weights,
                   user_location, vms, impl>>

\* one call self.scheduler.set_random_user_location()
SetRandomUserLocation ==
    /\ impl = "complete"
    /\ \E loc \in UserLocations : user_location' = loc
    /\ UNCHANGED <<pareto_vars, ecmr_placements, ret, datacenters, metrics,
                   weights, vms, impl>>

CompleteNext ==
    \/ ScheduleVmComplete
    \/ UpdateDatacenterStateComplete
    \/ SetRandomUserLocation

SpecComplete == CompleteInit /\ [][CompleteNext]_vars

\* requests of which a server holds more than one
SmallVmShapes ==
    {[num_cpus |-> 1, ram_mb |-> 4096], [num_cpus |-> 2, ram_mb |-> 2048]}

\* one call scheduler.schedule_vm(vm, hour) with a small request
ScheduleSmallVmBaseline ==
    /\ impl = "baseline"
    /\ Len(vms) < MaxVMs
    /\ \E shape \in SmallVmShapes :
         LET vm == NewVm(shape)
             r == schedule_vm_baseline(datacenters, metrics, weights,
                                       user_location, vm)
         IN  /\ datacenters' = r.datacenters
             /\ metrics' = r.metrics
             /\ ret' = r.ret
             /\ vms' = Append(vms, vm)
    /\ UNCHANGED <<pareto_vars, ecmr_placements, weights, user_location, impl>>

\* one call dc.release_vm(vm) for a vm that is allocated on dc, the call
\* being kept as the last call made
ReleaseAllocatedVm ==
    /\ impl = "baseline"
    /\ \E dc \in DatacenterIds, i \in 1..Len(vms) :
         /\ \E k \in 1..Len(datacenters[dc].active_vms) :
              datacenters[dc].active_vms[k] = vms[i].vm_id
         /\ datacenters' = release_vm(datacenters, dc, vms[i])
         /\ ret' = [op |-> "release_vm", vm |-> vms[i], dc_id |-> dc]
    /\ UNCHANGED <<pareto_vars, ecmr_placements, metrics, weights,
                   user_location, vms, impl>>

AllocateReleaseNext ==
    \/ ScheduleSmallVmBaseline
    \/ UpdateDatacenterStateBaseline
    \/ ReleaseAllocatedVm

SpecAllocateRelease == BaselineInit /\ [][AllocateReleaseNext]_vars

\* the sum of a field over the requests whose vm_id a pool holds as active
RECURSIVE ActiveTotal(_, _, _)
ActiveTotal(active, requests, field) ==
    IF active = <<>> THEN 0
    ELSE requests[Head(active)][field]
         + ActiveTotal(Tail(active), requests, field)

\* a list without the entries equal to id, the others in their order
Without(s, id) == SelectSeq(s, LAMBDA x : x # id)

\* C23: allocate_vm and release_vm of ecmr_baseline.py are exact inverses on
\* used_cpus, used_ram_mb and active_vms. An allocation appends the vm_id
\* and adds the request's CPUs and RAM; the release of an allocated request
\* removes its vm_id, leaves the other entries in their order and subtracts
\* the same CPUs and RAM, so that, whatever was allocated or released in
\* between, each pool's usage is the total of the requests still active.
C23_ReleaseInvertsAllocate ==
    [][\A dc \in DatacenterIds :
         LET before == datacenters[dc]
             after == datacenters'[dc]
         IN  /\ Len(after.active_vms) > Len(before.active_vms) =>
                    /\ ScheduleStep
                    /\ after.active_vms =
                           Append(before.active_vms, ret'.vm.vm_id)
                    /\ after.used_cpus = before.used_cpus + ret'.vm.num_cpus
                    /\ after.used_ram_mb = before.used_ram_mb + ret'.vm.ram_mb
             /\ after.used_cpus # before.used_cpus
                 \/ after.used_ram_mb # before.used_ram_mb
                 \/ Len(after.active_vms) < Len(before.active_vms) =>
                    \/ Len(after.active_vms) > Len(before.active_vms)
                    \/ \E i \in 1..Len(vms) :
                          /\ vms[i].vm_id \in Range(before.active_vms)
                          /\ after.active_vms =
                                 Without(before.active_vms, vms[i].vm_id)
                          /\ Len(after.active_vms) = Len(before.active_vms) - 1
                          /\ after.used_cpus = before.used_cpus - vms[i].num_cpus
                          /\ after.used_ram_mb = before.used_ram_mb - vms[i].ram_mb
             /\ after.used_cpus = ActiveTotal(after.active_vms, vms', "num_cpus")
             /\ after.used_ram_mb = ActiveTotal(after.active_vms, vms', "ram_mb")
      ]_vars

\* C23 witness: the last call released a request from a pool on which a
\* request placed after it is still active.
C23_Witness ==
    /\ impl = "baseline"
    /\ ret.op = "release_vm"
    /\ ret.vm.vm_id \notin Range(datacenters[ret.dc_id].active_vms)
    /\ \E j \in 1..Len(metrics.placement_decisions) :
          LET q == metrics.placement_decisions[j]
          IN  /\ q.vm_id > ret.vm.vm_id
              /\ q.datacenter = ret.dc_id
              /\ q.vm_id \in Range(datacenters[ret.dc_id].active_vms)

(***************************************************************************)
(* Claims about ecmr_cloudsim_complete.py                                  *)
(***************************************************************************)

\* C10: when a request needs more CPU than any pool has free, schedule_vm
\* returns (None, False, record), failed_vms grows by exactly 1, placed_vms
\* and every pool's used_cpus and used_ram_mb are unchanged, and every pool
\* appears in the record's evaluations with the insufficient-capacity reason.
C10_TotalFailure ==
    [][( /\ ScheduleStep
         /\ \A dc \in DatacenterIds :
              total_cpus(dc) - datacenters[dc].used_cpus < ret'.vm.num_cpus )
       => LET evals == ret'.decision.all_dc_evaluations IN
          /\ ret'.dc_id = "None"
          /\ ~ret'.success
          /\ ~ret'.decision.success
          /\ ret'.decision.vm_id = ret'.vm.vm_id
          /\ metrics'.failed_vms = metrics.failed_vms + 1
          /\ metrics'.placed_vms = metrics.placed_vms
          /\ \A dc \in DatacenterIds : SameAllocation(dc)
          /\ \A dc \in DatacenterIds :
               \E i \in 1..Len(evals) :
                   /\ evals[i].datacenter_id = dc
                   /\ \E k \in 1..Len(evals[i].rejection_reason) :
                        evals[i].rejection_reason[k] = "insufficient_capacity"
          /\ Len(evals) = Cardinality(DatacenterIds)]_vars

\* C10 witness: a request that needs more CPU than any pool has free has
\* just failed, after an earlier request took CPUs of a pool.
C10_Witness ==
    /\ impl = "complete"
    /\ ret.op = "schedule_vm"
    /\ ~ret.success
    /\ metrics.placed_vms >= 1
    /\ \A dc \in DatacenterIds :
         total_cpus(dc) - datacenters[dc].used_cpus < ret.vm.num_cpus

\* C20: in schedule_vm of ecmr_cloudsim_complete.py a pool that fails
\* can_host_vm is not counted as a constraint rejection: latency_rejections
\* and res_rejections grow by no more than the number of pools that can host
\* the request and fail the latency or the renewable check, and a request
\* that no pool can host leaves both counters unchanged.
C20_CapacitySkipNotCounted ==
    [][(ScheduleStep /\ impl = "complete") =>
         LET vm == ret'.vm
             hosts == {dc \in DatacenterIds : HasCapacity(datacenters, dc, vm)}
         IN  /\ metrics'.latency_rejections - metrics.latency_rejections
                    <= Cardinality({dc \in hosts : LatencyOver(dc)})
             /\ metrics'.res_rejections - metrics.res_rejections
                    <= Cardinality({dc \in hosts :
                           /\ datacenters[dc].datacenter_type = "DG"
                           /\ ~check_res_availability(datacenters, dc, vm)})
             /\ hosts = {} =>
                    /\ metrics'.latency_rejections = metrics.latency_rejections
                    /\ metrics'.res_rejections = metrics.res_rejections]_vars

\* C28: for the same pools, request, weights, observer location and latency
\* threshold, schedule_vm of ecmr_cloudsim_complete.py selects the pool that
\* schedule_vm of ecmr_baseline.py selects (or fails alike) and changes
\* placed_vms, failed_vms, latency_rejections and res_rejections by the same
\* amounts.
C28_CompleteSameAsBaseline ==
    [][(ScheduleStep /\ impl = "complete") =>
         LET b == schedule_vm_baseline(datacenters, metrics, weights,
                                       user_location, ret'.vm)
         IN  /\ ret'.dc_id = b.ret.dc_id
             /\ ret'.success = b.ret.success
             /\ metrics'.placed_vms = b.metrics.placed_vms
             /\ metrics'.failed_vms = b.metrics.failed_vms
             /\ metrics'.latency_rejections = b.metrics.latency_rejections
             /\ metrics'.res_rejections = b.metrics.res_rejections]_vars

(***************************************************************************)
(* run_integrated_simulation of ecmr_cloudsim_fully_integrated.py          *)
(***************************************************************************)
\* the vm dict of the loop: vm_id is vm_count, which grows only when a
\* request was placed, that is, with ecmr_placements
NewVmIntegratedRun(shape) ==
    [vm_id |-> Len(ecmr_placements), num_cpus |-> shape.num_cpus,
     ram_mb |-> shape.ram_mb]

\* one iteration of the VM loop: schedule_vm, then submitVMToDatacenter when
\* it succeeded; cloudsim_success is what the gateway returns
RunStepIntegrated ==
    /\ impl = "integrated"
    /\ Len(vms) < MaxVMs
    /\ \E shape \in VmShapes, cloudsim_success \in BOOLEAN :
         LET vm == NewVmIntegratedRun(shape)
             r == schedule_vm_integrated(datacenters, metrics, weights,
                                         user_location, vm)
         IN  /\ datacenters' = r.datacenters
             /\ metrics' = r.metrics
             /\ ret' = r.ret
             /\ vms' = Append(vms, vm)
             /\ ecmr_placements' =
                    IF r.ret.success
                    THEN Append(ecmr_placements,
                                [vm_id |-> vm.vm_id,
                                 ecmr_decision |-> r.ret.dc_id,
                                 cloudsim_success |-> cloudsim_success])
                    ELSE ecmr_placements
    /\ UNCHANGED <<pareto_vars, weights, user_location, impl>>

RunIntegratedNext ==
    \/ RunStepIntegrated
    \/ UpdateStateIntegrated

SpecRunIntegrated == IntegratedInit /\ [][RunIntegratedNext]_vars

\* C11: when submitVMToDatacenter returns failure for a request schedule_vm
\* has just placed, the iteration ends with the chosen pool's used_cpus and
\* used_ram_mb as they were before the schedule_vm call, and with the request
\* counted in failed_vms instead of placed_vms.
C11_CommitFailureIsPlacementFailure ==
    [][( /\ ScheduleStep
         /\ ret'.success
         /\ Len(ecmr_placements') = Len(ecmr_placements) + 1
         /\ ~ecmr_placements'[Len(ecmr_placements')].cloudsim_success )
       => /\ SameAllocation(ret'.dc_id)
          /\ metrics'.placed_vms = metrics.placed_vms
          /\ metrics'.failed_vms = metrics.failed_vms + 1]_vars

(***************************************************************************)
(* Datacenter.release_vm without the caller's care                         *)
(***************************************************************************)
\* one call dc.release_vm(vm) for a vm that is not allocated on dc: the
\* method has no precondition and raises nothing.  The model follows such
\* calls while no pool's allocation is negative, which bounds the counters.
ReleaseVmNotAllocated ==
    /\ impl = "baseline"
    /\ \A dc \in DatacenterIds :
         datacenters[dc].used_cpus >= 0 /\ datacenters[dc].used_ram_mb >= 0
    /\ \E dc \in DatacenterIds, i \in 1..Len(vms) :
         /\ \A k \in 1..Len(datacenters[dc].active_vms) :
              datacenters[dc].active_vms[k] # vms[i].vm_id
         /\ datacenters' = release_vm(datacenters, dc, vms[i])
    /\ UNCHANGED <<pareto_vars, ecmr_placements, ret, metrics, weights,
                   user_location, vms, impl>>

AnyReleaseNext ==
    \/ ScheduleVmBaseline
    \/ UpdateDatacenterStateBaseline
    \/ ReleaseVm
    \/ ReleaseVmNotAllocated

SpecAnyRelease == BaselineInit /\ [][AnyReleaseNext]_vars

\* C12: release_vm for a workload that is not allocated on the pool, or that
\* would release more than is in use, leaves used_cpus and used_ram_mb
\* unchanged: a pool's used_cpus or used_ram_mb changes outside schedule_vm
\* only by the release of a workload in its active_vms, by exactly that
\* workload's num_cpus and ram_mb, and never falls below zero.
C12_ReleaseUnallocatedChangesNothing ==
    [][\A dc \in DatacenterIds :
          ( /\ vms' = vms
            /\ ~SameAllocation(dc) )
          => /\ \E i \in 1..Len(vms) :
                  /\ \E k \in 1..Len(datacenters[dc].active_vms) :
                       datacenters[dc].active_vms[k] = vms[i].vm_id
                  /\ datacenters'[dc].used_cpus =
                         datacenters[dc].used_cpus - vms[i].num_cpus
                  /\ datacenters'[dc].used_ram_mb =
                         datacenters[dc].used_ram_mb - vms[i].ram_mb
             /\ datacenters'[dc].used_cpus >= 0
             /\ datacenters'[dc].used_ram_mb >= 0]_vars

(***************************************************************************)
(* Selection among the candidates                                          *)
(***************************************************************************)
\* the order of the pool identifiers as strings
IdRank == [dc \in DatacenterIds |->
              CASE dc = "DC_A" -> 1 [] dc = "DC_B" -> 2 [] OTHER -> 3]

\* the pools that survive the two passes of a call that starts from d
Survivors(d, vm) ==
    IF \E dc \in DatacenterIds : GreenPasses(d, dc, vm)
    THEN {dc \in DatacenterIds : GreenPasses(d, dc, vm)}
    ELSE {dc \in DatacenterIds : BrownPasses(d, dc, vm)}

\* C13: the selected pool has the minimum weighted score among the surviving
\* candidates, and among the candidates that tie on the minimum it is the
\* one with the lowest identifier, whatever the order the pools were given in.
C13_MinScoreLowestIdTieBreak ==
    [][(ScheduleStep /\ ret'.success) =>
         LET vm == ret'.vm
             score(dc) == calculate_weighted_score(datacenters, weights,
                                                   user_location, dc, vm)
         IN  \A c \in Survivors(datacenters, vm) :
                 /\ ~score_less(score(c), score(ret'.dc_id))
                 /\ ~score_less(score(ret'.dc_id), score(c))
                        => IdRank[ret'.dc_id] <= IdRank[c]]_vars

(***************************************************************************)
(* Run-scoped counters                                                     *)
(***************************************************************************)
\* C14: each schedule_vm call of ecmr_baseline.py counts one request in
\* total_vms, appends exactly one decision record and leaves the earlier
\* records as they were, so that after the call
\* total_vms = placed_vms + failed_vms = len(placement_decisions).
C14_CountersAgree ==
    [][ScheduleStep =>
         /\ metrics'.total_vms = metrics.total_vms + 1
         /\ Len(metrics'.placement_decisions) =
                Len(metrics.placement_decisions) + 1
         /\ SubSeq(metrics'.placement_decisions, 1,
                   Len(metrics.placement_decisions))
                = metrics.placement_decisions
         /\ metrics'.total_vms = metrics'.placed_vms + metrics'.failed_vms
         /\ metrics'.total_vms = Len(metrics'.placement_decisions)]_vars

(***************************************************************************)
(* ParetoFront.compute_hypervolume                                         *)
(* Objective values are integers; a reference point is held in tenths, a   *)
(* hypervolume as an exact fraction [num, den].                            *)
(***************************************************************************)
\* ParetoFront.get_objectives_array
get_objectives_array(sols) == [i \in 1..Len(sols) |-> sols[i].objectives]

\* np.argsort(keys): the indices of keys in ascending order of key, equal
\* keys in index order
RECURSIVE argsort(_)
argsort(keys) ==
    IF keys = <<>> THEN <<>>
    ELSE LET n == Len(keys)
             front == argsort(SubSeq(keys, 1, n - 1))
             k == Cardinality({i \in 1..Len(front) : keys[front[i]] <= keys[n]})
         IN  SubSeq(front, 1, k) \o <<n>> \o SubSeq(front, k + 1, Len(front))

\* the largest element of a non-empty set of integers
SetMax(S) == CHOOSE x \in S : \A y \in S : y <= x

\* np.max(objectives, axis=0) * 1.1, in tenths
default_reference_point(objectives) ==
    [k \in DOMAIN objectives[1] |->
        11 * SetMax({objectives[i][k] : i \in 1..Len(objectives)})]

\* np.all(obj < ref_point)
all_less(obj, ref_point) ==
    \A k \in DOMAIN obj : 10 * obj[k] < ref_point[k]

\* the loop of _compute_hypervolume_2d over the sorted objectives; acc holds
\* hypervolume (hundredths) and prev_x (tenths)
RECURSIVE hypervolume_2d_loop(_, _, _, _, _)
hypervolume_2d_loop(objectives, sorted_indices, ref_point, i, acc) ==
    IF i > Len(sorted_indices) THEN acc.hypervolume
    ELSE LET obj == objectives[sorted_indices[i]] IN
         IF all_less(obj, ref_point)
         THEN LET width == 10 * obj[1] - acc.prev_x
                  height == ref_point[2] - 10 * obj[2]
              IN  hypervolume_2d_loop(objectives, sorted_indices, ref_point,
                      i + 1,
                      [hypervolume |-> acc.hypervolume + width * height,
                       prev_x |-> 10 * obj[1]])
         ELSE hypervolume_2d_loop(objectives, sorted_indices, ref_point,
                                  i + 1, acc)

\* ParetoFront._compute_hypervolume_2d
_compute_hypervolume_2d(objectives, ref_point) ==
    LET sorted_indices ==
            argsort([i \in 1..Len(objectives) |-> objectives[i][1]])
    IN  [num |-> hypervolume_2d_loop(objectives, sorted_indices, ref_point, 1,
                                     [hypervolume |-> 0, prev_x |-> 0]),
         den |-> 100]

\* np.prod(ref_point - obj), in thousandths for three objectives
RECURSIVE box_volume(_, _, _)
box_volume(obj, ref_point, k) ==
    IF k = 0 THEN 1
    ELSE (ref_point[k] - 10 * obj[k]) * box_volume(obj, ref_point, k - 1)

\* the loop of _compute_hypervolume_3d
RECURSIVE hypervolume_3d_loop(_, _, _)
hypervolume_3d_loop(objectives, ref_point, i) ==
    IF i > Len(objectives) THEN 0
    ELSE (IF all_less(objectives[i], ref_point)
          THEN box_volume(objectives[i], ref_point, 3) ELSE 0)
         + hypervolume_3d_loop(objectives, ref_point, i + 1)

\* ParetoFront._compute_hypervolume_3d: the sum of the boxes times 0.5
_compute_hypervolume_3d(objectives, ref_point) ==
    [num |-> hypervolume_3d_loop(objectives, ref_point, 1), den |-> 2000]

\* ParetoFront.compute_hypervolume: the returned value and the value of
\* self.reference_point after the call
compute_hypervolume(sols, n, stored, reference_point_arg) ==
    IF sols = <<>>
    THEN [value |-> [num |-> 0, den |-> 1], reference_point |-> stored]
    ELSE LET objectives == get_objectives_array(sols)
             ref_point == IF reference_point_arg = NoReference
                          THEN default_reference_point(objectives)
                          ELSE reference_point_arg
         IN  [value |->
                  IF n = 2 THEN _compute_hypervolume_2d(objectives, ref_point)
                  ELSE IF n = 3
                  THEN _compute_hypervolume_3d(objectives, ref_point)
                  ELSE [num |-> 0, den |-> 1],
              reference_point |-> ref_point]

\* the reference points a caller passes: integer coordinates, in tenths
ReferencePoints(n) == [1..n -> {10 * k : k \in 1..(MaxObj + 1)}]

\* one call front.compute_hypervolume(reference_point), None included
ComputeHypervolume ==
    /\ ret = NoCall
    /\ \E arg \in ReferencePoints(num_objectives) \cup {NoReference} :
         LET r == compute_hypervolume(solutions, num_objectives,
                                      reference_point, arg)
         IN  /\ ret' = [op |-> "compute_hypervolume", reference_point |-> arg,
                        value |-> r.value]
             /\ reference_point' = r.reference_point
    /\ UNCHANGED <<num_objectives, solutions, submitted, add_calls, stage2,
                   scheduler_vars>>

\* add_solution calls build the front before the metric is computed
AddSolutionBeforeMetric ==
    /\ ret = NoCall
    /\ AddSolution

HypervolumeNext ==
    \/ AddSolutionBeforeMetric
    \/ ComputeHypervolume

SpecHypervolume == ParetoInit /\ [][HypervolumeNext]_vars

(***************************************************************************)
(* Claims about compute_hypervolume                                        *)
(***************************************************************************)
\* the unit cells of objective space, named by their lower corner
UnitCells(n) == [1..n -> 0..(MaxObj + 1)]

\* the extent, in tenths, of the unit cell c along axis k below ref_point
CellExtent(c, ref_point, k) ==
    LET lo == 10 * c[k]
        hi == IF lo + 10 < ref_point[k] THEN lo + 10 ELSE ref_point[k]
    IN  IF hi > lo THEN hi - lo ELSE 0

RECURSIVE CellVolume(_, _, _)
CellVolume(c, ref_point, k) ==
    IF k = 0 THEN 1
    ELSE CellExtent(c, ref_point, k) * CellVolume(c, ref_point, k - 1)

RECURSIVE CellsVolume(_, _, _)
CellsVolume(S, ref_point, n) ==
    IF S = {} THEN 0
    ELSE LET c == CHOOSE x \in S : TRUE
         IN  CellVolume(c, ref_point, n) + CellsVolume(S \ {c}, ref_point, n)

\* the volume, in 10^-n units, of the union of the boxes between each member
\* of the front and the reference point: of the part below the reference point
\* of the cells that some member weakly dominates
DominatedVolume(sols, ref_point, n) ==
    IF sols = <<>> THEN 0
    ELSE CellsVolume({c \in UnitCells(n) :
                         \E i \in 1..Len(sols) :
                             \A k \in 1..n : sols[i].objectives[k] <= c[k]},
                     ref_point, n)

\* C15: with 2 objectives compute_hypervolume returns exactly the area of the
\* region dominated by the front and bounded by the reference point.
C15_Hypervolume2DExact ==
    (ret.op = "compute_hypervolume" /\ num_objectives = 2)
        => ret.value.num * 100
               = DominatedVolume(solutions, reference_point, 2) * ret.value.den

\* C16: with 3 objectives compute_hypervolume returns exactly the volume of
\* the union of the boxes between each member and the reference point,
\* overlaps counted once.
C16_Hypervolume3DExact ==
    (ret.op = "compute_hypervolume" /\ num_objectives = 3)
        => ret.value.num * 1000
               = DominatedVolume(solutions, reference_point, 3) * ret.value.den

(***************************************************************************)
(* ParetoFront.compute_crowding_distance and select_sparse_solutions       *)
(* A crowding distance is [inf, num]: infinite, or num / CommonRange.      *)
(* np.argsort is called with the default kind, which is not stable: the    *)
(* order of equal keys is any order.                                       *)
(***************************************************************************)
\* the largest front the selection is modelled on
MaxFront == 3

\* the objective vectors of those fronts
SelectionVectors(n) ==
    [1..n -> 0..(IF n = 2 THEN MaxObj + 1 ELSE MaxObj)]

\* the fronts add_solution leaves when the members are added in order: no
\* member dominates another
SelectionFronts(n) ==
    {f \in UNION {[1..l -> SelectionVectors(n)] : l \in 0..MaxFront} :
        \A i \in DOMAIN f, j \in DOMAIN f : ~_dominates(f[i], f[j])}

\* a front built by add_solution calls, before any metric is computed
SelectionInit ==
    /\ num_objectives \in ObjectiveCounts
    /\ \E f \in SelectionFronts(num_objectives) :
         /\ solutions = [i \in DOMAIN f |-> [objectives |-> f[i], metadata |-> i]]
         /\ submitted = [v \in {f[i] : i \in DOMAIN f} |->
                            Cardinality({i \in DOMAIN f : f[i] = v})]
    /\ reference_point = NoReference
    /\ add_calls = NoAddCalls
    /\ stage2 = NotStarted
    /\ ret = NoCall
    /\ NoScheduler

\* the orders of the indices 1..m
IndexPermutations(m) ==
    {p \in [1..m -> 1..m] : \A i \in 1..m, j \in 1..m : p[i] = p[j] => i = j}

\* what np.argsort(keys) can return
argsort_outcomes(keys) ==
    {p \in IndexPermutations(Len(keys)) :
        \A i \in 1..(Len(keys) - 1) : keys[p[i]] <= keys[p[i + 1]]}

Infinite == [inf |-> TRUE, num |-> 0]

\* a >= b for two crowding distances
distance_ge(a, b) == a.inf \/ (~b.inf /\ a.num >= b.num)

\* what np.argsort(-crowding_distances) can return
argsort_descending_outcomes(cd) ==
    {p \in IndexPermutations(Len(cd)) :
        \A i \in 1..(Len(cd) - 1) : distance_ge(cd[p[i]], cd[p[i + 1]])}

\* the range of objective k over the front
obj_range(objectives, k) ==
    LET col == {objectives[i][k] : i \in 1..Len(objectives)}
    IN  SetMax(col) - (CHOOSE x \in col : \A y \in col : x <= y)

\* the common denominator of the finite distances: the product of the
\* non-zero ranges
RECURSIVE CommonRange(_, _)
CommonRange(objectives, k) ==
    IF k = 0 THEN 1
    ELSE (IF obj_range(objectives, k) = 0 THEN 1
          ELSE obj_range(objectives, k))
         * CommonRange(objectives, k - 1)

\* a plausible slip: the distance of an interior member is assigned, not
\* added to what the earlier objectives left
crowding_pass_assigns(cd, objectives, sorted_indices, k, den) ==
    LET n == Len(objectives)
        range == objectives[sorted_indices[n]][k]
                     - objectives[sorted_indices[1]][k]
        bounded == [i \in 1..n |->
                       IF i = sorted_indices[1] \/ i = sorted_indices[n]
                       THEN Infinite ELSE cd[i]]
        pos(i) == CHOOSE q \in 1..n : sorted_indices[q] = i
    IN  IF range = 0 THEN bounded
        ELSE [i \in 1..n |->
                 IF pos(i) = 1 \/ pos(i) = n THEN bounded[i]
                 ELSE [inf |-> FALSE,
                       num |-> (objectives[sorted_indices[pos(i) + 1]][k]
                                - objectives[sorted_indices[pos(i) - 1]][k])
                               * (den \div range)]]

\* one pass of the loop of compute_crowding_distance, for objective k with
\* sorted_indices as argsort returned them
crowding_pass(cd, objectives, sorted_indices, k, den) ==
    LET n == Len(objectives)
        range == objectives[sorted_indices[n]][k]
                     - objectives[sorted_indices[1]][k]
        bounded == [i \in 1..n |->
                       IF i = sorted_indices[1] \/ i = sorted_indices[n]
                       THEN Infinite ELSE cd[i]]
        pos(i) == CHOOSE q \in 1..n : sorted_indices[q] = i
    IN  IF range = 0 THEN bounded
        ELSE [i \in 1..n |->
                 IF pos(i) = 1 \/ pos(i) = n \/ bounded[i].inf THEN bounded[i]
                 ELSE [inf |-> FALSE,
                       num |-> bounded[i].num
                               + (objectives[sorted_indices[pos(i) + 1]][k]
                                  - objectives[sorted_indices[pos(i) - 1]][k])
                                 * (den \div range)]]

\* the loop over obj_idx, orders[k] being the argsort of objective k
RECURSIVE crowding_loop(_, _, _, _, _)
crowding_loop(cd, objectives, orders, k, den) ==
    IF k > Len(orders) THEN cd
    ELSE crowding_loop(crowding_pass(cd, objectives, orders[k], k, den),
                       objectives, orders, k + 1, den)

\* ParetoFront.compute_crowding_distance
compute_crowding_distance(sols, n_obj, orders) ==
    LET objectives == get_objectives_array(sols)
        n == Len(sols)
    IN  IF n <= 2 THEN [i \in 1..n |-> Infinite]
        ELSE crowding_loop([i \in 1..n |-> [inf |-> FALSE, num |-> 0]],
                           objectives, orders, 1,
                           CommonRange(objectives, n_obj))

\* the outcomes of the argsort calls of compute_crowding_distance for the
\* objectives 1..k
RECURSIVE crowding_orders(_, _)
crowding_orders(sols, k) ==
    IF k = 0 THEN {<<>>}
    ELSE {Append(o, p) :
             o \in crowding_orders(sols, k - 1),
             p \in argsort_outcomes([i \in 1..Len(sols) |->
                                        sols[i].objectives[k]])}

\* ParetoFront.select_sparse_solutions: the list of (index, distance) it
\* returns; indices count from 1 as those of solutions do here
select_sparse_solutions(sols, n_obj, n_select, orders, sorted_indices) ==
    IF Len(sols) <= n_select
    THEN [i \in 1..Len(sols) |-> [index |-> i, distance |-> Infinite]]
    ELSE LET crowding_distances ==
                 compute_crowding_distance(sols, n_obj, orders)
         IN  [j \in 1..n_select |->
                 [index |-> sorted_indices[j],
                  distance |-> crowding_distances[sorted_indices[j]]]]

\* one call front.select_sparse_solutions(n_select)
SelectSparseSolutions ==
    /\ ret = NoCall
    /\ \E n_select \in 0..MaxFront,
          orders \in crowding_orders(solutions, num_objectives) :
         \E sorted_indices \in argsort_descending_outcomes(
                 compute_crowding_distance(solutions, num_objectives, orders)) :
             ret' = [op |-> "select_sparse_solutions", n_select |-> n_select,
                     selected |-> select_sparse_solutions(solutions,
                         num_objectives, n_select, orders, sorted_indices)]
    /\ UNCHANGED <<pareto_vars, scheduler_vars>>

SelectionNext == SelectSparseSolutions

SpecSelection == SelectionInit /\ [][SelectionNext]_vars

(***************************************************************************)
(* Claims about select_sparse_solutions                                    *)
(***************************************************************************)
\* the crowding distances compute_crowding_distance can report for the front
PossibleDistances ==
    {compute_crowding_distance(solutions, num_objectives, o) :
        o \in crowding_orders(solutions, num_objectives)}

\* C17: when the front has at most n members, select_sparse_solutions(n)
\* returns every member index exactly once, each paired with the crowding
\* distance compute_crowding_distance reports for that member.
C17_SmallFrontOwnDistances ==
    (ret.op = "select_sparse_solutions" /\ Len(solutions) <= ret.n_select)
        => /\ Len(ret.selected) = Len(solutions)
           /\ \A i \in 1..Len(solutions) :
                  \E j \in 1..Len(ret.selected) : ret.selected[j].index = i
           /\ \E cd \in PossibleDistances :
                  \A j \in 1..Len(ret.selected) :
                      ret.selected[j].distance = cd[ret.selected[j].index]

\* the selection is the n members of largest distance cd, in decreasing order
LargestInOrder(cd) ==
    LET sel == ret.selected
        returned == {sel[j].index : j \in 1..Len(sel)}
    IN  /\ \A j \in 1..Len(sel) : sel[j].distance = cd[sel[j].index]
        /\ \A r \in returned, u \in (1..Len(solutions)) \ returned :
               distance_ge(cd[r], cd[u])
        /\ \A j \in 1..(Len(sel) - 1) :
               distance_ge(sel[j].distance, sel[j + 1].distance)

\* among members of equal distance cd the lower index comes first
TiesInInsertionOrder(cd) ==
    LET sel == ret.selected
    IN  \A j \in 1..Len(sel), u \in 1..Len(solutions) :
            ( /\ u < sel[j].index
              /\ distance_ge(cd[u], cd[sel[j].index])
              /\ distance_ge(cd[sel[j].index], cd[u]) )
            => \E q \in 1..(j - 1) : sel[q].index = u

\* C18: when the front has more than n members, select_sparse_solutions(n)
\* returns exactly n distinct member indices whose crowding distance is at
\* least that of every member not returned, in decreasing order of distance,
\* members of equal distance in insertion order.
C18_LargestDistancesInsertionOrder ==
    (ret.op = "select_sparse_solutions" /\ Len(solutions) > ret.n_select)
        => /\ Len(ret.selected) = ret.n_select
           /\ \A j \in 1..Len(ret.selected), q \in 1..Len(ret.selected) :
                  ret.selected[j].index = ret.selected[q].index => j = q
           /\ \E cd \in PossibleDistances :
                  LargestInOrder(cd) /\ TiesInInsertionOrder(cd)

(***************************************************************************)
(* classify_datacenters of ecmr_cloudsim_fully_integrated.py               *)
(***************************************************************************)
\* one call self.classify_datacenters(): the pools carry their type and the
\* pair (dg, db) is returned; before holds the pools the call started from
ClassifyDatacenters ==
    /\ impl = "integrated"
    /\ LET d1 == classify_datacenters_integrated(datacenters) IN
        /\ datacenters' = d1
        /\ ret' = [op |-> "classify_datacenters",
                   dg |-> of_type(d1, "DG"), db |-> of_type(d1, "DB"),
                   before |-> datacenters]
    /\ UNCHANGED <<pareto_vars, ecmr_placements, metrics, weights,
                   user_location, vms, impl>>

ClassifyNext ==
    \/ ClassifyDatacenters
    \/ UpdateStateIntegrated
    \/ ScheduleVmIntegrated

SpecClassify == IntegratedInit /\ [][ClassifyNext]_vars

\* the step is one classify_datacenters call
ClassifyStep == ret'.op = "classify_datacenters" /\ ret' # ret

\* C21: classify_datacenters puts a pool among the green pools exactly when
\* its renewable percentage is strictly above 50 and among the brown pools
\* otherwise; a pool at exactly 50 is brown.
C21_GreenIffAboveFifty ==
    [][ClassifyStep =>
         \A dc \in DatacenterIds :
             /\ dc \in Range(ret'.dg) <=> datacenters[dc].renewable_pct > 50
             /\ dc \in Range(ret'.db) <=> datacenters[dc].renewable_pct <= 50
             /\ datacenters'[dc].datacenter_type =
                    IF datacenters[dc].renewable_pct > 50 THEN "DG" ELSE "DB"]_vars

\* C22: a classify_datacenters call made on the pools as the previous
\* classify_datacenters call left them returns the same green and brown
\* lists and changes no field of any pool.
C22_ClassifyTwiceSame ==
    [][( /\ ClassifyStep
         /\ ret.op = "classify_datacenters"
         /\ datacenters = classify_datacenters_integrated(ret.before) )
       => /\ ret'.dg = ret.dg
          /\ ret'.db = ret.db
          /\ datacenters' = datacenters]_vars

\* C22 witness: the call before the last one changed the type of a pool and
\* the last call started from the pools it left, with pools of both types.
C22_Witness ==
    /\ ret.op = "classify_datacenters"
    /\ ret.dg # <<>>
    /\ ret.db # <<>>
    /\ ret.before = datacenters
    /\ \E dc \in DatacenterIds :
          /\ datacenters[dc].datacenter_type = "DG"
          /\ datacenters[dc].renewable_pct = 50

(***************************************************************************)
(* compute_crowding_distance called on its own                             *)
(***************************************************************************)
\* fronts of three objectives whose members agree on the third one
FlatFronts ==
    {[i \in DOMAIN f |-> <<f[i][1], f[i][2], c>>] :
        f \in SelectionFronts(2), c \in 0..MaxObj}

\* a front built by add_solution calls, before any metric is computed
CrowdingInit ==
    /\ num_objectives \in ObjectiveCounts
    /\ \E f \in SelectionFronts(num_objectives)
                 \cup (IF num_objectives = 3 THEN FlatFronts ELSE {}) :
         /\ solutions = [i \in DOMAIN f |-> [objectives |-> f[i], metadata |-> i]]
         /\ submitted = [v \in {f[i] : i \in DOMAIN f} |->
                            Cardinality({i \in DOMAIN f : f[i] = v})]
    /\ reference_point = NoReference
    /\ add_calls = NoAddCalls
    /\ stage2 = NotStarted
    /\ ret = NoCall
    /\ NoScheduler

\* one call front.compute_crowding_distance(); orders holds what the argsort
\* calls returned (none on a front of two members or fewer)
ComputeCrowdingDistance ==
    /\ ret = NoCall
    /\ \E orders \in (IF Len(solutions) <= 2 THEN {<<>>}
                       ELSE crowding_orders(solutions, num_objectives)) :
         ret' = [op |-> "compute_crowding_distance", orders |-> orders,
                 crowding_distances |->
                     compute_crowding_distance(solutions, num_objectives,
                                               orders)]
    /\ UNCHANGED <<pareto_vars, scheduler_vars>>

CrowdingNext == ComputeCrowdingDistance

SpecCrowding == CrowdingInit /\ [][CrowdingNext]_vars

(***************************************************************************)
(* Claims about compute_crowding_distance                                  *)
(***************************************************************************)
\* C24: on a front of three or more members, every member that the sort
\* along some objective places first or last has infinite crowding distance
\* in the result of compute_crowding_distance, whatever the other objectives
\* contribute.
C24_BoundaryMembersInfinite ==
    (ret.op = "compute_crowding_distance" /\ Len(solutions) >= 3)
        => \A k \in 1..num_objectives :
               /\ ret.crowding_distances[ret.orders[k][1]].inf
               /\ ret.crowding_distances[ret.orders[k][Len(solutions)]].inf

\* C24 witness: on a front of three members, a member placed first along
\* one objective is interior along another objective of non-zero range, so
\* that a finite contribution was added to its infinite distance.
C24_Witness ==
    /\ ret.op = "compute_crowding_distance"
    /\ Len(solutions) >= 3
    /\ \E k \in 1..num_objectives, l \in 1..num_objectives :
          /\ obj_range(get_objectives_array(solutions), l) # 0
          /\ ret.orders[l][1] # ret.orders[k][1]
          /\ ret.orders[l][Len(solutions)] # ret.orders[k][1]

\* the loop of compute_crowding_distance over the objectives k..Len(orders)
\* with the objective skip left out
RECURSIVE LoopWithout(_, _, _, _, _, _)
LoopWithout(cd, objectives, orders, k, den, skip) ==
    IF k > Len(orders) THEN cd
    ELSE LoopWithout(IF k = skip THEN cd
                     ELSE crowding_pass(cd, objectives, orders[k], k, den),
                     objectives, orders, k + 1, den, skip)

\* the crowding distances of the front with the objective skip left out,
\* the sorts along the other objectives as the call made them
DistancesWithout(skip) ==
    LET objectives == get_objectives_array(solutions)
    IN  LoopWithout([i \in 1..Len(solutions) |-> [inf |-> FALSE, num |-> 0]],
                    objectives, ret.orders, 1,
                    CommonRange(objectives, num_objectives), skip)

\* C25: on a front of three or more members, an objective on which all
\* members have the same value contributes nothing: the result of
\* compute_crowding_distance is what it is with that objective left out, and
\* a member interior on every other objective has a finite distance.
C25_ZeroRangeContributesNothing ==
    (ret.op = "compute_crowding_distance" /\ Len(solutions) >= 3)
        => \A k \in 1..num_objectives :
               obj_range(get_objectives_array(solutions), k) = 0
                   => ret.crowding_distances = DistancesWithout(k)

(***************************************************************************)
(* Claims about the default reference point and the objective count        *)
(***************************************************************************)
\* C26: when compute_hypervolume is called without a reference point on a
\* non-empty front, the reference point it derives and stores is strictly
\* greater than every member on every axis, so that no member fails the
\* obj < reference test.
C26_DefaultReferenceWorseThanAll ==
    ( /\ ret.op = "compute_hypervolume"
      /\ ret.reference_point = NoReference
      /\ solutions # <<>> )
    => \A i \in 1..Len(solutions) :
           /\ \A k \in 1..num_objectives :
                  reference_point[k] > 10 * solutions[i].objectives[k]
           /\ all_less(solutions[i].objectives, reference_point)

\* a front constructed with more objectives than compute_hypervolume handles
ManyObjectives == 4

\* ParetoFront.__init__ with num_objectives = 4
ManyObjectivesInit ==
    /\ num_objectives = ManyObjectives
    /\ solutions = <<>>
    /\ reference_point = NoReference
    /\ add_calls = NoAddCalls
    /\ stage2 = NotStarted
    /\ submitted = EmptyBag
    /\ ret = NoCall
    /\ NoScheduler

SpecManyObjectives == ManyObjectivesInit /\ [][HypervolumeNext]_vars

\* C27: on a non-empty front of more than three objectives, the outcome of
\* compute_hypervolume is an error, not a number: the caller cannot take it
\* for a hypervolume.
C27_ManyObjectivesNotANumber ==
    ( /\ ret.op = "compute_hypervolume"
      /\ num_objectives > 3
      /\ solutions # <<>> )
    => "num" \notin DOMAIN ret.value

(***************************************************************************)
(* add_solution called from two threads on one front.  The method takes no *)
(* lock: a thread can be suspended between two iterations of its loops,    *)
(* between the loops and before the append.                                *)
(***************************************************************************)
\* thread t enters add_solution(objectives, metadata): dominated = False,
\* to_remove = [], the enumeration starts at the first member
BeginAddSolution(t) ==
    /\ add_calls[t] = Idle
    /\ BagCardinality(submitted) < MaxAdds
    /\ \E objectives \in ObjectiveVectors(num_objectives) :
         /\ add_calls' = [add_calls EXCEPT ![t] =
                [pc |-> "check", objectives |-> objectives,
                 metadata |-> BagCardinality(submitted) + 1,
                 i |-> 1, dominated |-> FALSE, to_remove |-> <<>>]]
         /\ submitted' = submitted (+) SetToBag({objectives})
    /\ UNCHANGED <<num_objectives, solutions, reference_point, ret, stage2,
                   scheduler_vars>>

\* one iteration of the first loop of thread t over the list as it is now
CheckExisting(t) ==
    /\ add_calls[t].pc = "check"
    /\ LET c == add_calls[t] IN
        add_calls' = [add_calls EXCEPT ![t] =
            IF c.i > Len(solutions)
            THEN [c EXCEPT !.pc = "remove"]
            ELSE IF _dominates(solutions[c.i].objectives, c.objectives)
            THEN [c EXCEPT !.dominated = TRUE, !.pc = "remove"]
            ELSE IF _dominates(c.objectives, solutions[c.i].objectives)
            THEN [c EXCEPT !.to_remove = Append(@, c.i), !.i = @ + 1]
            ELSE [c EXCEPT !.i = @ + 1]]
    /\ UNCHANGED <<num_objectives, solutions, reference_point, submitted, ret,
                   stage2, scheduler_vars>>

\* one iteration of for i in reversed(to_remove): self.solutions.pop(i);
\* pop raises IndexError when the list has become too short
PopDominated(t) ==
    /\ add_calls[t].pc = "remove"
    /\ add_calls[t].to_remove # <<>>
    /\ LET c == add_calls[t]
           i == c.to_remove[Len(c.to_remove)]
       IN  IF i <= Len(solutions)
           THEN /\ solutions' = pop(solutions, i)
                /\ add_calls' = [add_calls EXCEPT ![t].to_remove =
                       SubSeq(@, 1, Len(@) - 1)]
           ELSE /\ solutions' = solutions
                /\ add_calls' = [add_calls EXCEPT ![t] = [pc |-> "IndexError"]]
    /\ UNCHANGED <<num_objectives, reference_point, submitted, ret, stage2,
                   scheduler_vars>>

\* if not dominated: self.solutions.append((objectives, metadata)); return
AppendAndReturn(t) ==
    /\ add_calls[t].pc = "remove"
    /\ add_calls[t].to_remove = <<>>
    /\ solutions' =
           IF add_calls[t].dominated THEN solutions
           ELSE Append(solutions, [objectives |-> add_calls[t].objectives,
                                   metadata |-> add_calls[t].metadata])
    /\ add_calls' = [add_calls EXCEPT ![t] = Idle]
    /\ UNCHANGED <<num_objectives, reference_point, submitted, ret, stage2,
                   scheduler_vars>>

ConcurrentAddNext ==
    \E t \in Threads :
        \/ BeginAddSolution(t)
        \/ CheckExisting(t)
        \/ PopDominated(t)
        \/ AppendAndReturn(t)

SpecConcurrentAdd == ParetoInit /\ [][ConcurrentAddNext]_vars

\* C29: add_solution calls made by two threads on one front behave as if
\* each ran alone: no call fails, and whenever no call is in progress no
\* member dominates another and the front holds exactly the submitted
\* vectors that no submitted vector dominates, as it does after the same
\* calls made one after the other in any order.
C29_ConcurrentAddsAtomic ==
    /\ \A t \in Threads : add_calls[t].pc # "IndexError"
    /\ add_calls = NoAddCalls =>
           /\ C1_NoMemberDominatesAnother
           /\ C3_FrontIsNonDominatedMultiset

(***************************************************************************)
(* stage2_pareto_extension of train_cmorl.py: the selected indices are     *)
(* looked up one after the other, add_solution being called in between.    *)
(***************************************************************************)
\* the objectives each selected solution is extended towards
TargetObjectives == <<"Energy", "Carbon", "Latency">>

\* the front stage 1 left: ParetoFront(num_objectives=3)
Stage2Init == SelectionInit /\ num_objectives = 3

\* sparse_solutions = self.pareto_front.select_sparse_solutions(n_select);
\* selected holds, for the comparison, the members the indices denote now
Stage2Select ==
    /\ stage2 = NotStarted
    /\ \E n_select \in 1..MaxFront,
          orders \in crowding_orders(solutions, num_objectives) :
         \E sorted_indices \in argsort_descending_outcomes(
                 compute_crowding_distance(solutions, num_objectives, orders)) :
             LET sparse_solutions ==
                     select_sparse_solutions(solutions, num_objectives,
                                             n_select, orders, sorted_indices)
             IN  stage2' =
                     [pc |-> IF sparse_solutions = <<>> THEN "done"
                             ELSE "get_solution",
                      sparse_solutions |-> sparse_solutions,
                      selected |-> [j \in 1..Len(sparse_solutions) |->
                                       solutions[sparse_solutions[j].index]],
                      sol_idx |-> 1]
    /\ UNCHANGED <<num_objectives, solutions, reference_point, submitted,
                   add_calls, ret, scheduler_vars>>

\* objectives, metadata = self.pareto_front.get_solution(pareto_idx):
\* self.solutions[index], IndexError beyond the end of the list
Stage2GetSolution ==
    /\ stage2.pc = "get_solution"
    /\ LET pareto_idx == stage2.sparse_solutions[stage2.sol_idx].index IN
        stage2' =
            IF pareto_idx > Len(solutions)
            THEN [pc |-> "IndexError", sol_idx |-> stage2.sol_idx]
            ELSE [pc |-> "extend",
                  sparse_solutions |-> stage2.sparse_solutions,
                  selected |-> stage2.selected,
                  sol_idx |-> stage2.sol_idx,
                  base |-> solutions[pareto_idx],
                  target_obj_idx |-> 1]
    /\ UNCHANGED <<num_objectives, solutions, reference_point, submitted,
                   add_calls, ret, scheduler_vars>>

\* one pass of the loop over the target objectives: the objectives the
\* fine-tuned policy reaches are added to the front
Stage2Extend ==
    /\ stage2.pc = "extend"
    /\ BagCardinality(submitted) < MaxFront + Len(TargetObjectives)
    /\ \E extended_objectives \in ObjectiveVectors(num_objectives) :
         /\ solutions' = add_solution(solutions, extended_objectives,
                                      BagCardinality(submitted) + 1)
         /\ submitted' = submitted (+) SetToBag({extended_objectives})
    /\ stage2' =
           IF stage2.target_obj_idx < Len(TargetObjectives)
           THEN [stage2 EXCEPT !.target_obj_idx = @ + 1]
           ELSE [pc |-> IF stage2.sol_idx < Len(stage2.sparse_solutions)
                        THEN "get_solution" ELSE "done",
                 sparse_solutions |-> stage2.sparse_solutions,
                 selected |-> stage2.selected,
                 sol_idx |-> stage2.sol_idx + 1]
    /\ UNCHANGED <<num_objectives, reference_point, add_calls, ret,
                   scheduler_vars>>

Stage2Next ==
    \/ Stage2Select
    \/ Stage2GetSolution
    \/ Stage2Extend

SpecStage2 == Stage2Init /\ [][Stage2Next]_vars

\* C30: in stage2_pareto_extension every get_solution lookup of a selected
\* index is within range and returns the member that index denoted when
\* select_sparse_solutions returned it.
C30_SelectedIndexStillDenotesMember ==
    /\ stage2.pc # "IndexError"
    /\ stage2.pc = "extend" => stage2.base = stage2.selected[stage2.sol_idx]

====
